---- MODULE Spec2Model ----
(***************************************************************************)
(* Malevich_bot: the Magnet procedural image generator                     *)
(* (src/Malevich/magnet_image_generator.py, src/Malevich/tech.py) and the  *)
(* post scheduler (src/Malevich/scheduler.py).                             *)
(*                                                                         *)
(* Spec      the recursion of Magnet.buildImg, one buildImg call at a time *)
(* SpecRun   the same recursion, observed together with one of the two     *)
(*           thresholds that the depth-0 call of the run drew              *)
(* FairSpec  Spec with every enabled step eventually taken                 *)
(* SpecImage creaate_image on a Magnet(dX, dY): tiling, 8-bit conversion,  *)
(*           file name and save                                            *)
(* SpecDivide Magnet.safeDivide on one element of its operands             *)
(* SpecEval  the float64 value of a built tree at one element of the field *)
(* SpecSched PostScheduler: construction, start() loop, stop(), run_once() *)
(* FairSched SpecSched with the thread inside start() kept running         *)
(* SpecSeeded two buildImg runs on the generator of the random module,     *)
(*           seeded alike                                                  *)
(* SpecConcurrent the same, with another thread drawing from the generator *)
(* SpecPoster any sequence of login and post_image calls on one            *)
(*           InstagramPoster (src/Malevich/instagram_poster.py)            *)
(* SpecPost  one call of generate_and_post (src/malevich_instagram.py)     *)
(* SpecParams one call of AvantGuard.random_parameters                     *)
(*           (src/Malevich/generators/avantguard.py)                       *)
(*                                                                         *)
(* Field values are fixed-point numbers in units of 0.0001.                *)
(***************************************************************************)
EXTENDS Integers, Sequences, FiniteSets, TLC

\* random.randint(2, 10) and random.randint(10, 30), both ends included.
DepthMinLo == 2
DepthMinHi == 10
DepthMaxLo == 10
DepthMaxHi == 30

\* 0.001, the clamp of safeDivide, in units of 0.0001.
Epsilon == 10

\* 1.0 in units of 0.0001.
One == 1000 * Epsilon

\* Binary operators are explored in calls at depth < MaxBinaryDepth only;
\* deeper calls explore the leaf and the unary operators.
MaxBinaryDepth == 1

\* Canvas widths and heights range over 1..MaxDim.
MaxDim == 3

\* Values an element of an evaluated field takes: below 0, around the
\* rounding steps of the 8-bit conversion, inside [0, 1] and above 1.
FieldValues == {-15000, 20, 5000, 10000, 25000}

\* Values of one element of the operands of safeDivide.
Dividends == {-20000, -1, 0, 1, 5000, 10000, 30000}
Denominators == {-20000, -10, -1, 0, 1, 9, 10, 11, 5000, 10000}

VARIABLES
  pc,        \* "call": buildImg(Len(stack)) is entered; "drawn": it has drawn its
             \* thresholds; "ret": buildImg(Len(stack)) has returned; "built": the
             \* depth-0 call has returned to creaate_image; "error": random.choice
             \* raised IndexError
  stack,     \* the buildImg frames that are inside the comprehension of line 50:
             \* nArgs children to build, n of them already built
  depthMin,  \* local depthMin of the call that is at lines 43..49 (0: none is)
  depthMax,  \* local depthMax of that call
  func,      \* the operator the last random.choice picked ("none" once a frame
             \* whose operator the frames do not keep is the active one)
  watch,     \* which threshold of the depth-0 call is observed: "none",
             \* "depthMin" or "depthMax"
  runVal,    \* the value the depth-0 call of this run drew for it
  dX,        \* Magnet.dX
  dY,        \* Magnet.dY
  ipc,       \* creaate_image: "ready": not called yet; "done": line 60 has computed
             \* the buffer; "array": Image.fromarray has returned; "named":
             \* create_random_filename has returned; "saved": line 61 has returned;
             \* "raised": lines 54..60 raised; "unsaved": line 61 raised
  img,       \* line 54: shape <<axis 0, axis 1, axis 2>> and set of element values
             \* of the field buildImg returned
  tiled,     \* line 57: shape of the array np.tile returned
  rounded,   \* line 60: the values np.rint returned, before the cast
  img8Bit,   \* line 60: the values of the uint8 array handed to Image.fromarray
  raised,    \* the exception the creaate_image call raised ("none": none)
  mkdir,     \* directory.mkdir of this call: "none" (not called), "ok", "failed"
  directory, \* the directory of the path create_random_filename returned to
             \* this call: "none", "masterpieces" (under date and hour) or "."
  file,      \* the image file of this call: "none", "partial" or "complete"
  dpc,       \* "ready": safeDivide(a, b) not called yet; "done": it has returned
  a,         \* one element of the dividend
  b,         \* the element of the denominator at the same place
  divisor,   \* the element np.maximum(b, 0.001) holds there
  quotient,  \* the element np.divide returned there
  epc,       \* "ready": the tree has not been evaluated; "done": it has
  tree,      \* the operators one buildImg() run chose: op, args, and for a
             \* randColor leaf the decade c of the colour component it drew
  px,        \* the element looked at: the values getX() and getY() hold there
  val,       \* the value of the evaluated field at that element
  eraised,   \* the exception the evaluation raised ("none": none)
  times,     \* the times argument of PostScheduler(...)
  intervalHours, \* its interval_hours argument
  jobs,      \* the jobs registered with the schedule module, in order
  running,   \* PostScheduler.running
  spc,       \* "new": not constructed; "idle": constructed; "while", "run_pending",
             \* "sleep": start() is at line 69, 70 or 71; "returned": start() has
             \* returned; "crashed": an exception has left start()
  due,       \* the jobs (by index) the current run_pending has still to run
  outcomes,  \* what the calls of post_function did, in order
  escaped,   \* an exception has left _safe_post
  sleepsAfterStop, \* sleeps of the loop that ended with running False
  seed,      \* the argument of the caller's random.seed
  rng,       \* the state of the generator of the random module
  run,       \* 1: the first creaate_image call after random.seed(seed); 2: the
             \* one after the caller has seeded again
  log,       \* what this run has drawn so far, in order
  log1,      \* what run 1 drew
  others,    \* calls of random.* that another thread has made during run 2
  xArray,    \* Magnet.xArray: the values along the x axis, in order
  yArray,    \* Magnet.yArray: the values along the y axis, in order
  stopSeen,  \* "none": stop() has not completed; "before": it has, and only
             \* before start() began; "after": it has since start() began
  poster,    \* the InstagramPoster: its username, password and is_logged_in
  calls,     \* what the instagrapi client has been asked: the client.login
             \* calls that succeeded, the client.photo_upload calls made, the
             \* login() calls that returned True, the post_image calls made
  result,    \* the last call on the poster and how it ended
  gp,        \* the generate_and_post call: where it is and what it has done
  rp         \* the random_parameters call: its arguments and what it returned

buildVars == <<pc, stack, depthMin, depthMax, func, watch, runVal>>
imageVars == <<dX, dY, xArray, yArray, ipc, img, tiled, rounded, img8Bit, raised, mkdir, directory, file>>
divideVars == <<dpc, a, b, divisor, quotient>>
evalVars == <<epc, tree, px, val, eraised>>
\* The variables outside the Magnet's builder, canvas and safeDivide.
schedVars == <<times, intervalHours, jobs, running, spc, due, outcomes, escaped,
               sleepsAfterStop, stopSeen>>
rngVars == <<seed, rng, run, log, log1, others>>
\* The variables of the Instagram poster and of AvantGuard.random_parameters.
moreVars == <<poster, calls, result, gp, rp>>
extraVars == <<evalVars, schedVars, rngVars, moreVars>>
vars == <<buildVars, imageVars, divideVars, extraVars>>

\* The operator table of buildImg, in source order.
functions ==
  << [nArgs |-> 0, name |-> "randColor"],
     [nArgs |-> 0, name |-> "getX"],
     [nArgs |-> 0, name |-> "getY"],
     [nArgs |-> 1, name |-> "sin"],
     [nArgs |-> 1, name |-> "cos"],
     [nArgs |-> 2, name |-> "add"],
     [nArgs |-> 2, name |-> "subtract"],
     [nArgs |-> 2, name |-> "multiply"],
     [nArgs |-> 2, name |-> "safeDivide"] >>

NArgsOf(name) ==
  IF name = "none" THEN -1
  ELSE functions[CHOOSE i \in DOMAIN functions : functions[i].name = name].nArgs

\* Eligible with a leaf admitted one level early: depth >= depthMin - 1.
EligibleLeafEarly(f, depth, dMin, dMax) ==
  \/ f.nArgs > 0 /\ depth < dMax
  \/ f.nArgs = 0 /\ depth >= dMin - 1

\* Eligible with the non-leaf bound off by one: depth <= depthMax.
EligibleMaxInclusive(f, depth, dMin, dMax) ==
  \/ f.nArgs > 0 /\ depth <= dMax
  \/ f.nArgs = 0 /\ depth >= dMin

\* Eligible with the leaf bound strict: depth > depthMin.
EligibleMinStrict(f, depth, dMin, dMax) ==
  \/ f.nArgs > 0 /\ depth < dMax
  \/ f.nArgs = 0 /\ depth > dMin

\* The filter of lines 46..48 for one entry f of the table.
Eligible(f, depth, dMin, dMax) ==
  \/ f.nArgs > 0 /\ depth < dMax
  \/ f.nArgs = 0 /\ depth >= dMin

\* funcs of line 46: the entries of the table (by index) that pass the filter.
funcs(depth, dMin, dMax) ==
  {i \in DOMAIN functions : Eligible(functions[i], depth, dMin, dMax)}

InitFrames ==
  /\ pc = "call" /\ stack = <<>>
  /\ depthMin = 0 /\ depthMax = 0 /\ func = "none" /\ runVal = 0

\* No creaate_image call has reached line 57 yet.
InitCanvas ==
  /\ ipc = "ready" /\ img = [shape |-> <<>>, vals |-> {}] /\ tiled = <<>>
  /\ rounded = {} /\ img8Bit = {} /\ raised = "none"
  /\ mkdir = "none" /\ directory = "none" /\ file = "none"

\* np.LinspaceArray(0.0, 1.0, n), lines 17..18: n evenly spaced values from 0 to 1,
\* both ends included; the one value 0 when n = 1.
LinspaceArray(n) == [i \in 1..n |-> IF n = 1 THEN 0 ELSE ((i - 1) * One) \div (n - 1)]

\* Lines 17..18 of __init__.
InitArrays == xArray = LinspaceArray(dX) /\ yArray = LinspaceArray(dY)

InitOperands ==
  /\ dpc = "ready" /\ divisor = 0 /\ quotient = [kind |-> "none", val |-> 0]

\* No tree is being evaluated.
InitEval ==
  /\ epc = "ready" /\ tree = [op |-> "none", args |-> <<>>, c |-> 0]
  /\ px = [x |-> 0, y |-> 0]
  /\ val = [kind |-> "none", sign |-> 1, exp |-> 0] /\ eraised = "none"

\* No PostScheduler has been constructed; schedule's job list is empty.
InitSched ==
  /\ spc = "new" /\ jobs = <<>> /\ running = FALSE /\ due = {}
  /\ outcomes = <<>> /\ escaped = FALSE /\ sleepsAfterStop = 0
  /\ stopSeen = "none"

\* No run is observed together with the generator.
InitRng ==
  /\ seed = 0 /\ rng = 0 /\ run = 1 /\ log = <<>> /\ log1 = <<>> /\ others = 0

\* No InstagramPoster has been constructed; generate_and_post and
\* random_parameters have not been called.
InitMore ==
  /\ poster = [Client |-> "class", made |-> FALSE, username |-> "", password |-> "",
               is_logged_in |-> FALSE]
  /\ calls = [logins |-> 0, uploads |-> 0, returnedTrue |-> 0, posts |-> 0]
  /\ result = [op |-> "none", out |-> "none"]
  /\ gp = [pc |-> "idle", auto_post |-> FALSE, format |-> "square", username |-> "",
           password |-> "", filepath |-> 0, saved |-> 0, returned |-> 0,
           raised |-> "none", caught |-> "none", loggedIn |-> FALSE,
           prepared |-> FALSE]
  /\ rp = [pc |-> "idle", width |-> 0, height |-> 0, drawn |-> <<>>, coords |-> <<>>]

InitExtra ==
  /\ InitEval
  /\ InitSched /\ times = [given |-> FALSE, list |-> <<>>] /\ intervalHours = <<>>
  /\ InitRng
  /\ InitMore

Init ==
  /\ InitFrames /\ watch = "none"
  /\ InitCanvas /\ dX = 1 /\ dY = 1 /\ InitArrays
  /\ InitOperands /\ a = 0 /\ b = 0
  /\ InitExtra

InitRun ==
  /\ InitFrames /\ watch \in {"depthMin", "depthMax"}
  /\ InitCanvas /\ dX = 1 /\ dY = 1 /\ InitArrays
  /\ InitOperands /\ a = 0 /\ b = 0
  /\ InitExtra

\* Lines 43..44 when the two calls of random.randint return dMin and dMax.
DrawWith(dMin, dMax) ==
  /\ pc = "call"
  /\ depthMin' = dMin
  /\ depthMax' = dMax
  /\ runVal' = IF stack # <<>> THEN runVal
               ELSE IF watch = "depthMin" THEN dMin
               ELSE IF watch = "depthMax" THEN dMax
               ELSE runVal
  /\ pc' = "drawn"
  /\ UNCHANGED <<stack, func, watch, imageVars, divideVars, evalVars, moreVars, schedVars>>

\* Lines 43..44: every buildImg call draws its own two thresholds.
Draw ==
  /\ \E dMin \in DepthMinLo..DepthMinHi, dMax \in DepthMaxLo..DepthMaxHi :
       DrawWith(dMin, dMax)
  /\ UNCHANGED rngVars

\* Lines 46..50 when random.choice returns one of the entries in C: filter the
\* table, pick one entry; a leaf returns at once (line 51), any other operator
\* starts building its first child at depth + 1. random.choice raises
\* IndexError on an empty list.
ChooseAmong(C) ==
  /\ pc = "drawn"
  /\ LET fs == funcs(Len(stack), depthMin, depthMax) IN
     IF fs = {}
     THEN pc' = "error" /\ UNCHANGED <<stack, func>>
     ELSE \E i \in fs \cap C :
            /\ functions[i].nArgs = 2 => Len(stack) < MaxBinaryDepth
            /\ func' = functions[i].name
            /\ IF functions[i].nArgs = 0
               THEN pc' = "ret" /\ UNCHANGED stack
               ELSE /\ pc' = "call"
                    /\ stack' = Append(stack, [nArgs |-> functions[i].nArgs, n |-> 0])
  /\ depthMin' = 0 /\ depthMax' = 0
  /\ UNCHANGED <<watch, runVal, imageVars, divideVars, evalVars, moreVars, schedVars>>

\* Lines 46..50: random.choice returns any entry of funcs.
Choose ==
  /\ ChooseAmong(DOMAIN functions)
  /\ UNCHANGED rngVars

\* Return with a comprehension that never advances to the next child.
ReturnNoAdvance ==
  /\ pc = "ret"
  /\ IF stack = <<>>
     THEN pc' = "built" /\ UNCHANGED <<stack, func>>
     ELSE LET fr == stack[Len(stack)] IN
          /\ func' = "none"
          /\ IF fr.n + 1 < fr.nArgs
             THEN pc' = "call" /\ UNCHANGED stack
             ELSE pc' = "ret" /\ stack' = SubSeq(stack, 1, Len(stack) - 1)
  /\ UNCHANGED <<depthMin, depthMax, watch, runVal, imageVars, divideVars, extraVars>>

\* Lines 50..51 in the caller: a child has returned; the caller builds its next
\* child, or applies its operator and returns itself. The depth-0 call returns
\* to creaate_image.
Return ==
  /\ pc = "ret"
  /\ IF stack = <<>>
     THEN pc' = "built" /\ UNCHANGED <<stack, func>>
     ELSE LET fr == stack[Len(stack)] IN
          /\ func' = "none"
          /\ IF fr.n + 1 < fr.nArgs
             THEN pc' = "call" /\ stack' = [stack EXCEPT ![Len(stack)].n = fr.n + 1]
             ELSE pc' = "ret" /\ stack' = SubSeq(stack, 1, Len(stack) - 1)
  /\ UNCHANGED <<depthMin, depthMax, watch, runVal, imageVars, divideVars, extraVars>>

\* creaate_image is called again (line 54): a new run, buildImg(0).
Restart ==
  /\ pc = "built"
  /\ pc' = "call" /\ func' = "none" /\ runVal' = 0
  /\ UNCHANGED <<stack, depthMin, depthMax, watch, imageVars, divideVars, evalVars, moreVars,
                 schedVars>>

Start ==
  /\ Restart
  /\ UNCHANGED rngVars

Next == Draw \/ Choose \/ Return \/ Start

Spec == Init /\ [][Next]_vars

SpecRun == InitRun /\ [][Next]_vars

\* The interpreter keeps running a call that has been started.
FairSpec == Spec /\ WF_vars(Next)

----------------------------------------------------------------------------
\* creaate_image: the shape and the values of the field, tiling, 8-bit conversion.

\* The leaf shapes with the axes of getX() and getY() exchanged.
LeafShapesTransposed(x, y) == { <<1, 1, 3>>, <<x, 1, 1>>, <<1, y, 1>> }

\* Shapes of randColor(), getX() and getY() on a Magnet(x, y).
LeafShapes(x, y) == { <<1, 1, 3>>, <<1, x, 1>>, <<y, 1, 1>> }

\* NumPy broadcasting of one axis (0: the operands do not broadcast).
BroadcastAxis(m, n) ==
  IF m = n THEN m ELSE IF m = 1 THEN n ELSE IF n = 1 THEN m ELSE 0

\* Shape of the result of a binary operator on fields of shapes s and t.
Broadcast(s, t) == [k \in 1..3 |-> BroadcastAxis(s[k], t[k])]

RECURSIVE BroadcastClosure(_)
BroadcastClosure(S) ==
  LET T == S \cup {Broadcast(s, t) : s, t \in S}
  IN  IF T = S THEN S ELSE BroadcastClosure(T)

\* The shapes buildImg() returns on a Magnet(x, y): sin and cos keep the shape
\* of their child, a binary operator broadcasts its two children.
FieldShapes(x, y) == BroadcastClosure(LeafShapes(x, y))

\* Line 57: the repetitions handed to np.tile; int() of a quotient of positive
\* integers truncates.
Reps(x, y, shape) == << x \div shape[1], y \div shape[2], 3 \div shape[3] >>

\* np.tile: axis k of the result is shape[k] * reps[k].
Tile(shape, reps) == [k \in 1..3 |-> shape[k] * reps[k]]

\* Clip without the lower bound.
ClipUpperOnly(v) == IF v > One THEN One ELSE v

\* img.clip(0.0, 1.0) on one element.
Clip(v) == IF v < 0 THEN 0 ELSE IF v > One THEN One ELSE v

\* np.rint(v * 255.0) on one element: round to nearest, ties to even.
Rint255(v) ==
  LET x == v * 255
      q == x \div One
      r == x % One
  IN  IF 2 * r < One THEN q
      ELSE IF 2 * r > One THEN q + 1
      ELSE IF q % 2 = 0 THEN q ELSE q + 1

\* np.uint8 on one float element: exact inside 0..255; outside it the C cast
\* is undefined, and any uint8 value may result.
Uint8(n) == IF n \in 0..255 THEN {n} ELSE 0..255

\* A Magnet(dX, dY) has been constructed.
InitImage ==
  /\ InitFrames /\ watch = "none"
  /\ InitCanvas /\ dX \in 1..MaxDim /\ dY \in 1..MaxDim /\ InitArrays
  /\ InitOperands /\ a = 0 /\ b = 0
  /\ InitExtra

\* No creaate_image call is in progress.
Callable == ipc \in {"ready", "saved", "raised", "unsaved"}

\* creaate_image scaling the field in place when the field is xArray itself.
CreateImageInPlace ==
  /\ Callable
  /\ \E s \in FieldShapes(dX, dY), V \in (SUBSET FieldValues) \ {{}} :
     LET t  == Tile(s, Reps(dX, dY, s))
         tv == IF \E k \in 1..3 : t[k] = 0 THEN {} ELSE V
         rv == {Rint255(Clip(v)) : v \in tv}
     IN  /\ img' = [shape |-> s, vals |-> V]
         /\ tiled' = t
         /\ rounded' = rv
         /\ img8Bit' = UNION {Uint8(n) : n \in rv}
         /\ raised' = "none"
         /\ ipc' = "done"
         /\ xArray' = IF s = <<1, dX, 1>> THEN [i \in 1..dX |-> 255 * xArray[i]]
                      ELSE xArray
  /\ mkdir' = "none" /\ directory' = "none" /\ file' = "none"
  /\ UNCHANGED <<dX, dY, yArray, buildVars, divideVars, extraVars>>

\* Lines 54..60 of creaate_image. The field buildImg returns has one of the
\* shapes of FieldShapes and any values.
CreateImage ==
  /\ Callable
  /\ \E s \in FieldShapes(dX, dY), V \in (SUBSET FieldValues) \ {{}} :
     LET t  == Tile(s, Reps(dX, dY, s))
         tv == IF \E k \in 1..3 : t[k] = 0 THEN {} ELSE V
         rv == {Rint255(Clip(v)) : v \in tv}
     IN  /\ img' = [shape |-> s, vals |-> V]
         /\ tiled' = t
         /\ rounded' = rv
         /\ img8Bit' = UNION {Uint8(n) : n \in rv}
         /\ raised' = "none"
         /\ ipc' = "done"
  /\ mkdir' = "none" /\ directory' = "none" /\ file' = "none"
  /\ UNCHANGED <<dX, dY, xArray, yArray, buildVars, divideVars, extraVars>>

\* Lines 54..60 when the arrays cannot be allocated: MemoryError leaves
\* creaate_image before line 61.
CreateImageRaises ==
  /\ Callable
  /\ img' = [shape |-> <<>>, vals |-> {}] /\ tiled' = <<>>
  /\ rounded' = {} /\ img8Bit' = {}
  /\ raised' = "MemoryError"
  /\ ipc' = "raised"
  /\ mkdir' = "none" /\ directory' = "none" /\ file' = "none"
  /\ UNCHANGED <<dX, dY, xArray, yArray, buildVars, divideVars, extraVars>>

\* Line 61, first the receiver of .save: Image.fromarray(img8Bit). An array
\* with an empty axis may be refused.
FromArray ==
  /\ ipc = "done"
  /\ \E ok \in (IF \E k \in 1..3 : tiled[k] = 0 THEN BOOLEAN ELSE {TRUE}) :
       IF ok THEN ipc' = "array" /\ raised' = raised
             ELSE ipc' = "unsaved" /\ raised' = "ValueError"
  /\ UNCHANGED <<dX, dY, xArray, yArray, img, tiled, rounded, img8Bit, mkdir, directory, file,
                 buildVars, divideVars, extraVars>>

\* create_random_filename creating the directory before line 54 has run.
CreateRandomFilenameEarly ==
  /\ ipc = "ready"
  /\ \E ok \in BOOLEAN :
       /\ mkdir' = IF ok THEN "ok" ELSE "failed"
       /\ directory' = IF ok THEN "masterpieces" ELSE "."
  /\ UNCHANGED <<dX, dY, xArray, yArray, ipc, img, tiled, rounded, img8Bit, raised, file,
                 buildVars, divideVars, extraVars>>

\* create_random_filename without the try of lines 24..29: the failure of
\* mkdir leaves creaate_image.
CreateRandomFilenamePropagates ==
  /\ ipc = "array"
  /\ \E ok \in BOOLEAN :
       /\ mkdir' = IF ok THEN "ok" ELSE "failed"
       /\ directory' = IF ok THEN "masterpieces" ELSE "none"
       /\ ipc' = IF ok THEN "named" ELSE "unsaved"
       /\ raised' = IF ok THEN raised ELSE "OSError"
  /\ UNCHANGED <<dX, dY, xArray, yArray, img, tiled, rounded, img8Bit, file,
                 buildVars, divideVars, extraVars>>

\* Line 61, then the argument of .save: tech.py lines 20..33. mkdir succeeds or
\* raises; the except clause of line 26 replaces the directory by ".".
CreateRandomFilename ==
  /\ ipc = "array"
  /\ \E ok \in BOOLEAN :
       /\ mkdir' = IF ok THEN "ok" ELSE "failed"
       /\ directory' = IF ok THEN "masterpieces" ELSE "."
  /\ ipc' = "named"
  /\ UNCHANGED <<dX, dY, xArray, yArray, img, tiled, rounded, img8Bit, raised, file,
                 buildVars, divideVars, extraVars>>

\* Line 61, last the call of .save: the file is written, or the write fails
\* with nothing or a part of the file on disk, and OSError leaves creaate_image.
Save ==
  /\ ipc = "named"
  /\ \/ file' = "complete" /\ ipc' = "saved" /\ raised' = raised
     \/ file' \in {"none", "partial"} /\ ipc' = "unsaved" /\ raised' = "OSError"
  /\ UNCHANGED <<dX, dY, xArray, yArray, img, tiled, rounded, img8Bit, mkdir, directory,
                 buildVars, divideVars, extraVars>>

NextImage ==
  CreateImage \/ CreateImageRaises \/ FromArray \/ CreateRandomFilename \/ Save

SpecImage == InitImage /\ [][NextImage]_vars

----------------------------------------------------------------------------
\* safeDivide.

\* np.minimum in place of np.maximum.
Minimum(x, y) == IF x <= y THEN x ELSE y

\* A clamp of the magnitude: the maximum of |x| and y.
MaximumOfMagnitude(x, y) == IF (IF x < 0 THEN -x ELSE x) >= y THEN (IF x < 0 THEN -x ELSE x) ELSE y

\* np.maximum on one element.
Maximum(x, y) == IF x >= y THEN x ELSE y

Abs(x) == IF x < 0 THEN -x ELSE x

\* np.divide on one element: division by zero yields inf or nan (with a
\* RuntimeWarning, not an exception); otherwise the quotient, truncated to the
\* fixed-point unit.
Divide(x, d) ==
  IF d = 0
  THEN [kind |-> IF x = 0 THEN "nan" ELSE IF x > 0 THEN "inf" ELSE "-inf", val |-> 0]
  ELSE [kind |-> "finite",
        val  |-> (IF (x < 0) = (d < 0) THEN 1 ELSE -1) * ((Abs(x) * One) \div Abs(d))]

InitDivide ==
  /\ InitFrames /\ watch = "none"
  /\ InitCanvas /\ dX = 1 /\ dY = 1 /\ InitArrays
  /\ InitOperands /\ a \in Dividends /\ b \in Denominators
  /\ InitExtra

\* Line 31: np.divide(a, np.maximum(b, 0.001)).
SafeDivide ==
  /\ dpc = "ready"
  /\ divisor' = Maximum(b, Epsilon)
  /\ quotient' = Divide(a, Maximum(b, Epsilon))
  /\ dpc' = "done"
  /\ UNCHANGED <<a, b, buildVars, imageVars, extraVars>>

NextDivide == SafeDivide

SpecDivide == InitDivide /\ [][NextDivide]_vars

----------------------------------------------------------------------------
\* Line 51: the value func(*args) takes at one element of the field, in
\* float64. A value is zero, a signed power of ten, an infinity or a NaN;
\* "other" stands for every float64 that is none of these.

\* The largest and the smallest decade of a non-zero float64: 1e308 is finite
\* and 1e309 is inf; 1e-323 is a denormal and 1e-324 is 0.0.
MaxExp10 == 308
MinExp10 == -323

\* A tree of the family the evaluation is explored on has up to MaxTower
\* levels of one binary operator whose two children are alike.
MaxTower == 7

\* Decades of the colour components random.random() returns.
ColourExps == {-1}

Zero == [kind |-> "zero", sign |-> 1, exp |-> 0]
Pow10(s, e) == [kind |-> "finite", sign |-> s, exp |-> e]
Inf(s) == [kind |-> "inf", sign |-> s, exp |-> 0]
NaN == [kind |-> "nan", sign |-> 1, exp |-> 0]
Other == [kind |-> "other", sign |-> 1, exp |-> 0]

\* float64 rounding of s * 10^e: overflow gives an infinity (NumPy warns, it
\* does not raise), underflow gives zero.
Float64(s, e) ==
  IF e > MaxExp10 THEN Inf(s) ELSE IF e < MinExp10 THEN Zero ELSE Pow10(s, e)

Negative(u) == [u EXCEPT !.sign = IF u.kind \in {"finite", "inf"} THEN -u.sign ELSE 1]

\* np.add on one element. The sum of two powers of ten is a power of ten or
\* zero only when one operand is zero or the two cancel.
add(u, v) ==
  IF u.kind = "other" \/ v.kind = "other" THEN Other
  ELSE IF u.kind = "nan" \/ v.kind = "nan" THEN NaN
  ELSE IF u.kind = "inf" /\ v.kind = "inf"
       THEN IF u.sign = v.sign THEN u ELSE NaN
  ELSE IF u.kind = "inf" THEN u
  ELSE IF v.kind = "inf" THEN v
  ELSE IF u.kind = "zero" THEN v
  ELSE IF v.kind = "zero" THEN u
  ELSE IF u.exp = v.exp /\ u.sign # v.sign THEN Zero
  ELSE Other

\* np.subtract on one element.
subtract(u, v) == add(u, Negative(v))

\* np.multiply on one element.
multiply(u, v) ==
  IF u.kind = "other" \/ v.kind = "other" THEN Other
  ELSE IF u.kind = "nan" \/ v.kind = "nan" THEN NaN
  ELSE IF u.kind = "inf" \/ v.kind = "inf"
       THEN IF u.kind = "zero" \/ v.kind = "zero" THEN NaN ELSE Inf(u.sign * v.sign)
  ELSE IF u.kind = "zero" \/ v.kind = "zero" THEN Zero
  ELSE Float64(u.sign * v.sign, u.exp + v.exp)

\* np.maximum(v, 0.001) on one element; 0.001 is 10^-3. A NaN propagates.
maximum(v) ==
  IF v.kind \in {"other", "nan"} THEN v
  ELSE IF v.kind = "inf" THEN (IF v.sign = 1 THEN v ELSE Pow10(1, -3))
  ELSE IF v.kind = "zero" \/ v.sign = -1 \/ v.exp < -3 THEN Pow10(1, -3)
  ELSE v

\* np.divide on one element.
divide(u, d) ==
  IF u.kind = "other" \/ d.kind = "other" THEN Other
  ELSE IF u.kind = "nan" \/ d.kind = "nan" THEN NaN
  ELSE IF d.kind = "zero"
       THEN IF u.kind = "zero" THEN NaN ELSE Inf(u.sign)
  ELSE IF u.kind = "inf"
       THEN IF d.kind = "inf" THEN NaN ELSE Inf(u.sign * d.sign)
  ELSE IF d.kind = "inf" \/ u.kind = "zero" THEN Zero
  ELSE Float64(u.sign * d.sign, u.exp - d.exp)

\* Line 31.
safeDivide(u, v) == divide(u, maximum(v))

\* np.sin on one element: sin(x) rounds to x for |x| < 1e-8; the sine of an
\* infinity is NaN (NumPy warns, it does not raise).
sin(u) ==
  IF u.kind \in {"other", "nan", "zero"} THEN u
  ELSE IF u.kind = "inf" THEN NaN
  ELSE IF u.exp < -8 THEN u
  ELSE Other

\* np.cos on one element: cos(x) rounds to 1.0 for |x| < 1e-8.
cos(u) ==
  IF u.kind \in {"other", "nan"} THEN u
  ELSE IF u.kind = "inf" THEN NaN
  ELSE IF u.kind = "zero" \/ u.exp < -8 THEN Pow10(1, 0)
  ELSE Other

\* The element of np.LinspaceArray(0.0, 1.0, n), n > 1, at its first (0) or last (1)
\* place.
Linspace(i) == IF i = 0 THEN Zero ELSE Pow10(1, 0)

\* func(*args) of line 51, on the values of the children at one element.
Apply(t, p, vs) ==
  CASE t.op = "randColor"  -> Pow10(1, t.c)
    [] t.op = "getX"       -> Linspace(p.x)
    [] t.op = "getY"       -> Linspace(p.y)
    [] t.op = "sin"        -> sin(vs[1])
    [] t.op = "cos"        -> cos(vs[1])
    [] t.op = "add"        -> add(vs[1], vs[2])
    [] t.op = "subtract"   -> subtract(vs[1], vs[2])
    [] t.op = "multiply"   -> multiply(vs[1], vs[2])
    [] t.op = "safeDivide" -> safeDivide(vs[1], vs[2])

\* Lines 50..51: the children are evaluated first, then the operator.
RECURSIVE Eval(_, _)
Eval(t, p) == Apply(t, p, [k \in DOMAIN t.args |-> Eval(t.args[k], p)])

\* buildImg(depth) can return the tree t: some pair of thresholds lets line 46
\* keep its operator, and the children can be returned by buildImg(depth + 1).
RECURSIVE Buildable(_, _)
Buildable(t, depth) ==
  /\ \E dMin \in DepthMinLo..DepthMinHi, dMax \in DepthMaxLo..DepthMaxHi :
       \E i \in funcs(depth, dMin, dMax) : functions[i].name = t.op
  /\ \A k \in DOMAIN t.args : Buildable(t.args[k], depth + 1)

Leaf(name, c) == [op |-> name, args |-> <<>>, c |-> c]
Node(name, ts) == [op |-> name, args |-> ts, c |-> 0]

Leaves == {Leaf("getX", 0), Leaf("getY", 0)} \cup {Leaf("randColor", c) : c \in ColourExps}

UnaryOps == {functions[i].name : i \in {j \in DOMAIN functions : functions[j].nArgs = 1}}
BinaryOps == {functions[i].name : i \in {j \in DOMAIN functions : functions[j].nArgs = 2}}

\* One operator applied to t, as both children when the operator is binary.
Over(name, t) == IF name \in UnaryOps THEN Node(name, <<t>>) ELSE Node(name, <<t, t>>)

\* The leaves, and one operator on leaves.
BaseTrees ==
  Leaves \cup {Node(f, <<l>>) : f \in UnaryOps, l \in Leaves}
         \cup {Node(f, <<l, r>>) : f \in BinaryOps, l \in Leaves, r \in Leaves}

\* k levels of the binary operator f over the tree t.
RECURSIVE Tower(_, _, _)
Tower(k, f, t) == IF k = 0 THEN t ELSE Over(f, Tower(k - 1, f, t))

\* The trees the evaluation is explored on: a tower of multiply nodes over a
\* base tree, under at most one further operator.
EvalTrees ==
  LET towers == {Tower(k, "multiply", t) : k \in 0..MaxTower, t \in BaseTrees}
  IN  towers \cup {Over(g, t) : g \in UnaryOps \cup BinaryOps, t \in towers}

\* A tree has been built; its value at a corner element of the field is looked
\* at. Only trees whose value there is zero, a power of ten, an infinity or
\* a NaN are explored.
InitTree ==
  /\ InitFrames /\ watch = "none"
  /\ InitCanvas /\ dX = 2 /\ dY = 2 /\ InitArrays
  /\ InitOperands /\ a = 0 /\ b = 0
  /\ epc = "ready" /\ eraised = "none"
  /\ val = [kind |-> "none", sign |-> 1, exp |-> 0]
  /\ px \in [x : {0, 1}, y : {0, 1}]
  /\ tree \in {t \in EvalTrees : Buildable(t, 0)}
  /\ InitSched /\ times = [given |-> FALSE, list |-> <<>>] /\ intervalHours = <<>>
  /\ InitRng /\ InitMore
  /\ Eval(tree, px).kind # "other"

\* Line 51 of the depth-0 call: the field creaate_image receives at line 54.
\* The NumPy operators warn on overflow and on invalid operands; none raises.
Evaluate ==
  /\ epc = "ready"
  /\ val' = Eval(tree, px)
  /\ eraised' = "none"
  /\ epc' = "done"
  /\ UNCHANGED <<tree, px, buildVars, imageVars, divideVars, schedVars, rngVars, moreVars>>

NextEval == Evaluate

SpecEval == InitTree /\ [][NextEval]_vars

----------------------------------------------------------------------------
\* PostScheduler (src/Malevich/scheduler.py).

\* At most MaxTimes entries in the times argument.
MaxTimes == 2

\* The outcomes of the first MaxPosts calls of post_function are kept.
MaxPosts == 2

\* The time strings of the times argument, "HH:MM".
TimeStrings == {"09:00", "18:00"}

\* The interval_hours argument: None is <<>>, the integer n is <<n>>.
IntervalArgs == {<<>>, <<0>>, <<1>>, <<6>>}

\* The times argument: None, or a list of time strings.
TimesArgs ==
  {[given |-> FALSE, list |-> <<>>]} \cup
  {[given |-> TRUE, list |-> l] : l \in UNION {[1..n -> TimeStrings] : n \in 0..MaxTimes}}

\* post_function returns, or raises an exception derived from Exception.
PostOutcomes == {"ok", "Exception"}

\* schedule.every().day.at(t) and schedule.every(n).hours.
Daily(t) == [unit |-> "day", interval |-> 1, at |-> t]
Hourly(n) == [unit |-> "hours", interval |-> n, at |-> ""]

\* Line 29: times or [].
SelfTimes(t) == IF t.given THEN t.list ELSE <<>>

\* _setup_schedule with the interval looked at before the times.
SetupIntervalFirst(ts, iv) ==
  IF iv # <<>> /\ iv[1] # 0 THEN << Hourly(iv[1]) >>
  ELSE IF ts # <<>> THEN [k \in 1..Len(ts) |-> Daily(ts[k])]
  ELSE << Daily("10:00"), Daily("20:00") >>

\* _setup_schedule, lines 37..48: the jobs it registers, in order.
SetupSchedule(ts, iv) ==
  IF ts # <<>> THEN [k \in 1..Len(ts) |-> Daily(ts[k])]
  ELSE IF iv # <<>> /\ iv[1] # 0 THEN << Hourly(iv[1]) >>
  ELSE << Daily("10:00"), Daily("20:00") >>

\* _safe_post without the try: what post_function raises leaves it.
SafePostNoTry(outcome) == IF outcome = "ok" THEN "returned" ELSE "raised"

\* _safe_post, lines 50..57: except Exception logs what post_function raised.
SafePost(outcome) == "returned"

\* The outcomes of the calls of post_function, the first MaxPosts of them.
Record(outcome) == IF Len(outcomes) < MaxPosts THEN Append(outcomes, outcome) ELSE outcomes

InitScheduler ==
  /\ InitFrames /\ watch = "none"
  /\ InitCanvas /\ dX = 1 /\ dY = 1 /\ InitArrays
  /\ InitOperands /\ a = 0 /\ b = 0
  /\ InitEval
  /\ InitSched /\ times \in TimesArgs /\ intervalHours \in IntervalArgs
  /\ InitRng /\ InitMore

\* PostScheduler(post_function, times, interval_hours), lines 28..33.
Construct ==
  /\ spc = "new"
  /\ running' = FALSE
  /\ jobs' = jobs \o SetupSchedule(SelfTimes(times), intervalHours)
  /\ spc' = "idle"
  /\ UNCHANGED <<times, intervalHours, stopSeen, due, outcomes, escaped, sleepsAfterStop,
                 buildVars, imageVars, divideVars, evalVars, moreVars, rngVars>>

\* start() that leaves running False when stop() has been called before it.
StartLoopHonoursStop ==
  /\ spc = "idle"
  /\ running' = (stopSeen # "before")
  /\ spc' = "while"
  /\ UNCHANGED <<times, intervalHours, stopSeen, jobs, due, outcomes, escaped, sleepsAfterStop,
                 buildVars, imageVars, divideVars, evalVars, moreVars, rngVars>>

\* start(), line 66.
StartLoop ==
  /\ spc = "idle"
  /\ running' = TRUE
  /\ spc' = "while"
  /\ UNCHANGED <<times, intervalHours, stopSeen, jobs, due, outcomes, escaped, sleepsAfterStop,
                 buildVars, imageVars, divideVars, evalVars, moreVars, rngVars>>

\* The loop test of line 69 that never reads self.running.
LoopTestIgnoresRunning ==
  /\ spc = "while"
  /\ spc' = "run_pending" /\ due' \in SUBSET DOMAIN jobs
  /\ UNCHANGED <<times, intervalHours, stopSeen, jobs, running, outcomes, escaped, sleepsAfterStop,
                 buildVars, imageVars, divideVars, evalVars, moreVars, rngVars>>

\* Line 69: the loop test. When it reads True, run_pending (line 70) collects
\* the jobs whose time has come: any of the registered jobs.
LoopTest ==
  /\ spc = "while"
  /\ IF running
     THEN spc' = "run_pending" /\ due' \in SUBSET DOMAIN jobs
     ELSE spc' = "returned" /\ due' = due
  /\ UNCHANGED <<times, intervalHours, stopSeen, jobs, running, outcomes, escaped, sleepsAfterStop,
                 buildVars, imageVars, divideVars, evalVars, moreVars, rngVars>>

\* Line 70: run_pending runs one of the jobs it collected: _safe_post calls
\* post_function, which may call stop(). An exception that leaves _safe_post
\* leaves run_pending and start().
RunJob ==
  /\ spc = "run_pending" /\ due # {}
  /\ \E j \in due, outcome \in PostOutcomes, stops \in BOOLEAN :
       /\ outcomes' = Record(outcome)
       /\ running' = IF stops THEN FALSE ELSE running
       /\ stopSeen' = IF stops THEN "after" ELSE stopSeen
       /\ IF SafePost(outcome) = "raised"
          THEN spc' = "crashed" /\ escaped' = TRUE /\ due' = due
          ELSE spc' = spc /\ escaped' = escaped /\ due' = due \ {j}
  /\ UNCHANGED <<times, intervalHours, jobs, sleepsAfterStop,
                 buildVars, imageVars, divideVars, evalVars, moreVars, rngVars>>

\* Line 70: run_pending returns once the jobs it collected have run.
PendingDone ==
  /\ spc = "run_pending" /\ due = {}
  /\ spc' = "sleep"
  /\ UNCHANGED <<times, intervalHours, stopSeen, jobs, running, due, outcomes, escaped,
                 sleepsAfterStop, buildVars, imageVars, divideVars, evalVars, moreVars, rngVars>>

\* Line 71: time.sleep returns. sleepsAfterStop counts, up to 2, the sleeps
\* that end while running is False.
Sleep ==
  /\ spc = "sleep"
  /\ spc' = "while"
  /\ sleepsAfterStop' = IF ~running /\ sleepsAfterStop < 2
                        THEN sleepsAfterStop + 1 ELSE sleepsAfterStop
  /\ UNCHANGED <<times, intervalHours, stopSeen, jobs, running, due, outcomes, escaped,
                 buildVars, imageVars, divideVars, evalVars, moreVars, rngVars>>

\* stop(), line 75, called from another thread.
Stop ==
  /\ spc # "new"
  /\ running' = FALSE
  /\ stopSeen' = IF spc = "idle" /\ stopSeen # "after" THEN "before" ELSE "after"
  /\ UNCHANGED <<times, intervalHours, jobs, spc, due, outcomes, escaped,
                 sleepsAfterStop, buildVars, imageVars, divideVars, evalVars, moreVars, rngVars>>

\* run_once(), line 80, called from another thread.
RunOnce ==
  /\ spc # "new"
  /\ \E outcome \in PostOutcomes :
       /\ outcomes' = Record(outcome)
       /\ escaped' = (escaped \/ SafePost(outcome) = "raised")
  /\ UNCHANGED <<times, intervalHours, stopSeen, jobs, running, spc, due, sleepsAfterStop,
                 buildVars, imageVars, divideVars, evalVars, moreVars, rngVars>>

\* The steps of the thread that called start().
LoopStep == LoopTest \/ RunJob \/ PendingDone \/ Sleep

NextSched == Construct \/ StartLoop \/ LoopStep \/ Stop \/ RunOnce

SpecSched == InitScheduler /\ [][NextSched]_vars

\* The thread inside start() keeps running: post_function and time.sleep return.
FairSched == SpecSched /\ WF_vars(LoopStep)

----------------------------------------------------------------------------
\* Runs of buildImg together with the generator of the random module, which all
\* of random.randint, random.choice and random.random share.

\* The caller seeds with 0..MaxSeed. A run is followed as far as the operators
\* it draws stay within MaxBinaryDepth.
MaxSeed == 1020

\* Another thread makes at most MaxOtherDraws calls of random.* during run 2.
MaxOtherDraws == 1

\* A generator that also mixes in state that is not set by random.seed.
AdvanceUnseeded(x) == (37 * x + 11 + run) % 1021

\* One step of the generator: its next state is a function of its state alone.
\* A linear congruential generator stands for the Mersenne Twister.
Advance(x) == (37 * x + 11) % 1021

\* random.randint(lo, hi) on the generator state x that the call has reached.
RandInt(x, lo, hi) == lo + (x % (hi - lo + 1))

\* random.choice on a list of the table indices in S, in table order.
RandChoice(x, S) ==
  LET k == x % Cardinality(S)
  IN  CHOOSE e \in S : Cardinality({f \in S : f < e}) = k

\* random.random(), in 1/256.
RandFloat(x) == x % 256

\* The caller has called random.seed(seed) and then creaate_image().
InitSeeded ==
  /\ InitFrames /\ watch = "none"
  /\ InitCanvas /\ dX = 1 /\ dY = 1 /\ InitArrays
  /\ InitOperands /\ a = 0 /\ b = 0
  /\ InitEval
  /\ InitSched /\ times = [given |-> FALSE, list |-> <<>>] /\ intervalHours = <<>>
  /\ seed \in 0..MaxSeed /\ rng = seed
  /\ run = 1 /\ log = <<>> /\ log1 = <<>> /\ others = 0
  /\ InitMore

Drawn(what, v) == [kind |-> what, val |-> v]

\* Lines 43..44 on the generator.
SeededDraw ==
  LET x1 == Advance(rng)
      x2 == Advance(x1)
      dMin == RandInt(x1, DepthMinLo, DepthMinHi)
      dMax == RandInt(x2, DepthMaxLo, DepthMaxHi)
  IN  /\ DrawWith(dMin, dMax)
      /\ rng' = x2
      /\ log' = log \o << Drawn("depthMin", dMin), Drawn("depthMax", dMax) >>
      /\ UNCHANGED <<seed, run, log1, others>>

\* Lines 46..51 on the generator: random.choice draws once (never on an empty
\* list); a randColor leaf, applied at line 51, draws its three components
\* (line 22).
SeededChoose ==
  LET fs == funcs(Len(stack), depthMin, depthMax)
      x1 == Advance(rng)
      x2 == Advance(x1)
      x3 == Advance(x2)
      x4 == Advance(x3)
      i  == IF fs = {} THEN 0 ELSE RandChoice(x1, fs)
  IN  /\ ChooseAmong({i})
      /\ IF fs = {} THEN rng' = rng /\ log' = log
         ELSE IF functions[i].name = "randColor"
         THEN /\ rng' = x4
              /\ log' = log \o << Drawn("choice", i), Drawn("color", RandFloat(x2)),
                                   Drawn("color", RandFloat(x3)), Drawn("color", RandFloat(x4)) >>
         ELSE /\ rng' = x1
              /\ log' = Append(log, Drawn("choice", i))
      /\ UNCHANGED <<seed, run, log1, others>>

\* The caller calls random.seed(seed) and creaate_image() a second time.
SecondRun ==
  /\ run = 1
  /\ Restart
  /\ rng' = seed /\ run' = 2 /\ log1' = log /\ log' = <<>>
  /\ UNCHANGED <<seed, others>>

\* A creaate_image call of another thread executes one of its calls of random.*
\* (lines 22, 43, 44, 49) while run 2 is inside buildImg.
OtherCall ==
  /\ run = 2 /\ pc \in {"call", "drawn", "ret"}
  /\ others < MaxOtherDraws
  /\ rng' = Advance(rng)
  /\ others' = others + 1
  /\ UNCHANGED <<seed, run, log, log1, buildVars, imageVars, divideVars, evalVars, moreVars,
                 schedVars>>

NextSeeded == SeededDraw \/ SeededChoose \/ Return \/ SecondRun

\* Two runs from the same seed, one after the other.
SpecSeeded == InitSeeded /\ [][NextSeeded]_vars

NextConcurrent == NextSeeded \/ OtherCall

\* The second run shares the generator with a call of another thread.
SpecConcurrent == InitSeeded /\ [][NextConcurrent]_vars

----------------------------------------------------------------------------
\* The Instagram poster (src/Malevich/instagram_poster.py) and
\* generate_and_post (src/malevich_instagram.py).

\* The calls counted on one poster, at most.
MaxCalls == 2

\* A user name or a password: None or the empty string (""), or a string.
Names == {"", "u"}

\* What client.login raises, or "ok".
LoginResults == {"ok", "ChallengeRequired", "LoginRequired", "Exception"}

\* What the file system and the client do during one login(): whether the
\* session file exists, and how load_settings, the client.login of line 75 or
\* 81, the client.login of line 79 and dump_settings end.
LoginOutcomes ==
  [exists : BOOLEAN, load : {"ok", "Exception"}, login1 : LoginResults,
   login2 : LoginResults, dump : {"ok", "Exception"}]

\* Python's x or y on two of Names.
Or(x, y) == IF x # "" THEN x ELSE y

\* An InstagramPoster that no __init__ has filled; Client is the module's name
\* Client of lines 11..17: the class of instagrapi, or None.
NoPoster(client) ==
  [Client |-> client, made |-> FALSE, username |-> "", password |-> "",
   is_logged_in |-> FALSE]

NoCalls == [logins |-> 0, uploads |-> 0, returnedTrue |-> 0, posts |-> 0]

Outcome(self, c, op, out) ==
  [self |-> self, calls |-> c, result |-> [op |-> op, out |-> out]]

\* __init__, lines 41..49.
init(self, username, password) ==
  IF self.Client = "None"
  THEN Outcome(self, NoCalls, "__init__", "ImportError")
  ELSE Outcome([self EXCEPT !.made = TRUE, !.username = username,
                            !.password = password, !.is_logged_in = FALSE],
               NoCalls, "__init__", "None")

\* login with is_logged_in set at its first line, before the client is asked.
loginSetsFlagFirst(self, c, username, password, session_file, o) ==
  LET u == Or(username, self.username)
      p == Or(password, self.password)
      s == [self EXCEPT !.is_logged_in = TRUE]
  IN  IF u = "" \/ p = "" THEN Outcome(s, c, "login", "ValueError")
      ELSE IF o.login1 # "ok" THEN Outcome(s, c, "login", o.login1)
      ELSE Outcome([s EXCEPT !.username = u],
                   [c EXCEPT !.logins = @ + 1, !.returnedTrue = @ + 1],
                   "login", "True")

\* login, lines 64..99. With a session file that exists, load_settings and
\* client.login are tried and any failure is answered by one more client.login
\* (lines 73..79); otherwise client.login is called once (line 81). The except
\* clauses of lines 91..99 log and raise again.
login(self, c, username, password, session_file, o) ==
  LET u == Or(username, self.username)
      p == Or(password, self.password)
      again == session_file /\ o.exists /\ (o.load # "ok" \/ o.login1 # "ok")
      last == IF again THEN o.login2 ELSE o.login1
      c1 == [c EXCEPT !.logins = @ + 1]
  IN  IF u = "" \/ p = "" THEN Outcome(self, c, "login", "ValueError")
      ELSE IF last # "ok" THEN Outcome(self, c, "login", last)
      ELSE IF session_file /\ o.dump # "ok" THEN Outcome(self, c1, "login", o.dump)
      ELSE Outcome([self EXCEPT !.is_logged_in = TRUE, !.username = u],
                   [c1 EXCEPT !.returnedTrue = @ + 1], "login", "True")

\* post_image without the test of line 151.
postImageUnguarded(self, c, o) ==
  Outcome(self, [c EXCEPT !.posts = @ + 1, !.uploads = @ + 1], "post_image",
          IF o = "ok" THEN "True" ELSE o)

\* post_image, lines 151..165; o is what client.photo_upload does.
post_image(self, c, o) ==
  IF ~self.is_logged_in
  THEN Outcome(self, [c EXCEPT !.posts = @ + 1], "post_image", "RuntimeError")
  ELSE Outcome(self, [c EXCEPT !.posts = @ + 1, !.uploads = @ + 1], "post_image",
               IF o = "ok" THEN "True" ELSE o)

\* The names the module instagram_poster.py binds at its top level: the
\* imports of lines 5..17, logger and the two classes.
ModuleNames ==
  {"os", "logging", "Optional", "List", "Path", "Image", "Client",
   "LoginRequired", "ChallengeRequired", "logger", "InstagramPoster",
   "InstagramImagePreparer"}

\* generate_hashtags, lines 177..200: line 198 reads the global name random.
generate_hashtags(style) ==
  IF "random" \in ModuleNames THEN "list" ELSE "NameError"

\* The keys of INSTAGRAM_SIZES, lines 26..31.
INSTAGRAM_SIZES == {"square", "portrait", "landscape", "story"}

\* prepare_image_for_instagram, lines 113..136; o is what opening, resizing
\* and saving the image do.
prepare_image_for_instagram(format, o) ==
  IF format \notin INSTAGRAM_SIZES THEN "ValueError" ELSE o

\* The state of the rest of the program while a poster is at work.
InitAround ==
  /\ InitFrames /\ watch = "none"
  /\ InitCanvas /\ dX = 1 /\ dY = 1 /\ InitArrays
  /\ InitOperands /\ a = 0 /\ b = 0
  /\ InitEval
  /\ InitSched /\ times = [given |-> FALSE, list |-> <<>>] /\ intervalHours = <<>>
  /\ InitRng

NoGp ==
  [pc |-> "idle", auto_post |-> FALSE, format |-> "square", username |-> "",
   password |-> "", filepath |-> 0, saved |-> 0, returned |-> 0,
   raised |-> "none", caught |-> "none", loggedIn |-> FALSE, prepared |-> FALSE]

NoRp == [pc |-> "idle", width |-> 0, height |-> 0, drawn |-> <<>>, coords |-> <<>>]

\* The module has been imported, with instagrapi or without it.
InitPoster ==
  /\ InitAround
  /\ poster \in {NoPoster(client) : client \in {"class", "None"}}
  /\ calls = NoCalls /\ result = [op |-> "none", out |-> "none"]
  /\ gp = NoGp /\ rp = NoRp

Took(r) == poster' = r.self /\ calls' = r.calls /\ result' = r.result

Around == <<gp, rp, buildVars, imageVars, divideVars, evalVars, schedVars, rngVars>>

\* InstagramPoster(username, password).
NewPoster ==
  /\ ~poster.made
  /\ \E username \in Names, password \in Names : Took(init(poster, username, password))
  /\ UNCHANGED Around

\* poster.login(username, password, session_file).
Login ==
  /\ poster.made /\ calls.logins < MaxCalls
  /\ \E username \in Names, password \in Names, session_file \in BOOLEAN,
        o \in LoginOutcomes :
       Took(login(poster, calls, username, password, session_file, o))
  /\ UNCHANGED Around

\* poster.post_image(image_path, caption, hashtags).
PostImage ==
  /\ poster.made /\ calls.posts < MaxCalls
  /\ \E o \in {"ok", "Exception"} : Took(post_image(poster, calls, o))
  /\ UNCHANGED Around

NextPoster == NewPoster \/ Login \/ PostImage

\* Any sequence of login and post_image calls on one InstagramPoster.
SpecPoster == InitPoster /\ [][NextPoster]_vars

\* generate_and_post (src/malevich_instagram.py), one call.

\* random.randint(1000, 9999) of line 53: the ends of its range.
FileNumbers == {1000, 9999}

\* The format argument: two keys of INSTAGRAM_SIZES and a string that is none.
Formats == {"square", "portrait", "poster"}

\* The module has been imported: INSTAGRAM_USERNAME, INSTAGRAM_PASSWORD and
\* SESSION_FILE hold what the environment gave (lines 22..24).
InitPost ==
  /\ InitAround
  /\ poster \in {NoPoster(client) : client \in {"class", "None"}}
  /\ calls = NoCalls /\ result = [op |-> "none", out |-> "none"]
  /\ gp \in {[NoGp EXCEPT !.username = u, !.password = p] : u \in Names, p \in Names}
  /\ rp = NoRp

Beside == <<rp, buildVars, imageVars, divideVars, evalVars, schedVars, rngVars>>

\* Lines 89..92: the except clause logs the exception e, and line 92 returns
\* the path of line 54.
Caught(e) == [gp EXCEPT !.pc = "returned", !.returned = gp.filepath, !.caught = e]

\* Lines 48..56: the image is generated and saved under a random name; an
\* exception of the generator or of image.save leaves generate_and_post.
GpSave ==
  /\ gp.pc = "idle"
  /\ \E auto_post \in BOOLEAN, format \in Formats, n \in FileNumbers, ok \in BOOLEAN :
       gp' = [gp EXCEPT !.auto_post = auto_post, !.format = format,
                        !.filepath = n,
                        !.saved = IF ok THEN n ELSE 0,
                        !.pc = IF ok THEN "saved" ELSE "raised",
                        !.raised = IF ok THEN "none" ELSE "OSError"]
  /\ UNCHANGED <<poster, calls, result, Beside>>

\* Lines 58..62 and 92.
GpBranch ==
  /\ gp.pc = "saved"
  /\ gp' = IF ~gp.auto_post \/ gp.username = "" \/ gp.password = ""
           THEN [gp EXCEPT !.pc = "returned", !.returned = gp.filepath]
           ELSE [gp EXCEPT !.pc = "try"]
  /\ UNCHANGED <<poster, calls, result, Beside>>

\* Line 65.
GpConstruct ==
  /\ gp.pc = "try"
  /\ LET r == init(poster, gp.username, gp.password)
     IN  /\ Took(r)
         /\ gp' = IF r.result.out = "None" THEN [gp EXCEPT !.pc = "login"]
                  ELSE Caught(r.result.out)
  /\ UNCHANGED Beside

\* Lines 68..69 with an except clause that raises again.
GpLoginPropagates ==
  /\ gp.pc = "login"
  /\ \E o \in LoginOutcomes :
       LET r == IF poster.is_logged_in
                THEN Outcome(poster, calls, "login", "True")
                ELSE login(poster, calls, "", "", TRUE, o)
       IN  /\ Took(r)
           /\ gp' = IF r.result.out = "True"
                    THEN [gp EXCEPT !.pc = "prepare", !.loggedIn = TRUE]
                    ELSE [gp EXCEPT !.pc = "raised", !.raised = r.result.out]
  /\ UNCHANGED Beside

\* Lines 68..69: login with the session file of line 24, unless the poster is
\* logged in.
GpLogin ==
  /\ gp.pc = "login"
  /\ \E o \in LoginOutcomes :
       LET r == IF poster.is_logged_in
                THEN Outcome(poster, calls, "login", "True")
                ELSE login(poster, calls, "", "", TRUE, o)
       IN  /\ Took(r)
           /\ gp' = IF r.result.out = "True"
                    THEN [gp EXCEPT !.pc = "prepare", !.loggedIn = TRUE]
                    ELSE Caught(r.result.out)
  /\ UNCHANGED Beside

\* Line 72.
GpPrepare ==
  /\ gp.pc = "prepare"
  /\ \E o \in {"ok", "OSError"} :
       LET out == prepare_image_for_instagram(gp.format, o)
       IN  /\ result' = [op |-> "prepare_image_for_instagram", out |-> out]
           /\ gp' = IF out = "ok" THEN [gp EXCEPT !.pc = "caption", !.prepared = TRUE]
                    ELSE Caught(out)
  /\ UNCHANGED <<poster, calls, Beside>>

\* Lines 75..87: the caption, the hashtags and, when generate_hashtags has
\* returned them, post_image.
GpPost ==
  /\ gp.pc = "caption"
  /\ \E o \in {"ok", "Exception"} :
       LET h == generate_hashtags("avantgarde")
           r == IF h = "list" THEN post_image(poster, calls, o)
                ELSE Outcome(poster, calls, "generate_hashtags", h)
       IN  /\ Took(r)
           /\ gp' = IF r.result.out = "True"
                    THEN [gp EXCEPT !.pc = "returned", !.returned = gp.filepath]
                    ELSE Caught(r.result.out)
  /\ UNCHANGED Beside

NextPost == GpSave \/ GpBranch \/ GpConstruct \/ GpLogin \/ GpPrepare \/ GpPost

\* One call of generate_and_post.
SpecPost == InitPost /\ [][NextPost]_vars

----------------------------------------------------------------------------
\* AvantGuard.random_parameters (src/Malevich/generators/avantguard.py).

\* The widths and heights tried, at most.
MaxSide == 3

\* MIN_VALUE of line 10.
MIN_VALUE == 0

\* Python's max on two integers.
max(x, y) == IF x >= y THEN x ELSE y

\* random_parameters without the exchanges of lines 114..115 and 120..121.
randomParametersUnordered(width, height, d) == <<d[1], d[3], d[2], d[4]>>

\* Lines 108..123, when the four calls of random.randint return d[1]..d[4].
random_parameters(width, height, d) ==
  LET x1 == IF d[1] > d[2] THEN d[2] ELSE d[1]
      x2 == IF d[1] > d[2] THEN d[1] ELSE d[2]
      y1 == IF d[3] > d[4] THEN d[4] ELSE d[3]
      y2 == IF d[3] > d[4] THEN d[3] ELSE d[4]
  IN  <<x1, y1, x2, y2>>

\* What the four random.randint calls of lines 112, 113, 118, 119 may return:
\* integers from MIN_VALUE to max_x or max_y (lines 108..109), ends included.
Draws(width, height) ==
  LET max_x == max(MIN_VALUE, width - 1)
      max_y == max(MIN_VALUE, height - 1)
  IN  {d \in [1..4 -> MIN_VALUE..max(max_x, max_y)] :
         /\ d[1] <= max_x /\ d[2] <= max_x
         /\ d[3] <= max_y /\ d[4] <= max_y}

\* random_parameters is about to be called with some width and height.
InitParams ==
  /\ InitAround
  /\ poster = NoPoster("class") /\ calls = NoCalls
  /\ result = [op |-> "none", out |-> "none"] /\ gp = NoGp
  /\ rp \in {[NoRp EXCEPT !.width = w, !.height = h] : w \in 0..MaxSide, h \in 0..MaxSide}

\* The call and its return, line 123.
RandomParameters ==
  /\ rp.pc = "idle"
  /\ \E d \in Draws(rp.width, rp.height) :
       rp' = [rp EXCEPT !.pc = "returned", !.drawn = d,
                        !.coords = random_parameters(rp.width, rp.height, d)]
  /\ UNCHANGED <<poster, calls, result, gp, buildVars, imageVars, divideVars,
                 evalVars, schedVars, rngVars>>

NextParams == RandomParameters

SpecParams == InitParams /\ [][NextParams]_vars

----------------------------------------------------------------------------
\* The tree builder.

\* C1: within one run the thresholds are drawn once: every buildImg call of
\* the run filters with the pair the depth-0 call drew. Whichever of the two
\* thresholds is observed, each call has drawn the value the run started with.
C1_ThresholdsDrawnOnce ==
  pc = "drawn" =>
    /\ watch = "depthMin" => depthMin = runVal
    /\ watch = "depthMax" => depthMax = runVal

\* C2: no buildImg call is made at a depth greater than the depth_max the
\* depth-0 call of the run drew.
C2_DepthWithinRunMax ==
  (watch = "depthMax" /\ pc = "drawn") => Len(stack) <= runVal

\* C3: no leaf (randColor, getX, getY) is chosen at a depth below the
\* depth_min the depth-0 call of the run drew.
C3_LeafDepthAtLeastRunMin ==
  (watch = "depthMin" /\ pc = "ret" /\ NArgsOf(func) = 0) => Len(stack) >= runVal

\* C4: the operator a call picks passed the filter of that call: a leaf is
\* picked only at depth >= depthMin, a unary or binary operator only at
\* depth < depthMax, for the thresholds that call drew.
C4_ChosenIsEligible ==
  [][(pc = "drawn" /\ pc' \in {"call", "ret"}) =>
       /\ NArgsOf(func') \in {0, 1, 2}
       /\ NArgsOf(func') = 0 => Len(stack) >= depthMin
       /\ NArgsOf(func') > 0 => Len(stack) < depthMax]_vars

\* A leaf picked by a call at the largest depth_min, under a binary root.
C4_Witness ==
  /\ pc = "ret" /\ func = "getY" /\ Len(stack) = DepthMinHi
  /\ stack[1].nArgs = 2

\* C5: buildImg(0) terminates: a run that has been started returns to
\* creaate_image.
C5_BuildTerminates == (pc = "call" /\ stack = <<>>) ~> (pc = "built")

\* The depth-0 call has returned to creaate_image, through its callers' frames.
C5_Witness == pc = "built" /\ func = "none"

\* C6: the list random.choice draws from is never empty: no call raises
\* IndexError, whatever thresholds it drew.
C6_FuncsNonEmpty ==
  /\ pc # "error"
  /\ pc = "drawn" => funcs(Len(stack), depthMin, depthMax) # {}

\* A call at depth 10 that drew depth_min = depth_max = 10.
C6_Witness ==
  /\ pc = "drawn" /\ Len(stack) = 10
  /\ depthMin = DepthMinHi /\ depthMax = DepthMaxLo

----------------------------------------------------------------------------
\* Tiling and 8-bit conversion.

\* The ratios line 57 truncates are not all integers.
NonIntegerRatio ==
  \/ dX % img.shape[1] # 0
  \/ dY % img.shape[2] # 0
  \/ 3 % img.shape[3] # 0

\* C7: for every positive dX and dY and every shape buildImg returns, the
\* tiled array has shape (dY, dX, 3).
C7_TiledShape == ipc = "done" => tiled = <<dY, dX, 3>>

\* C8: when a ratio of the tiling step is not an integer, the step fails with
\* ShapeMismatchError.
C8_MismatchRaises ==
  (ipc = "done" /\ NonIntegerRatio) => raised = "ShapeMismatchError"

\* C9: every value of the buffer handed to the encoder is an integer in
\* 0..255, and it is the value np.rint produced: the uint8 cast never leaves
\* its range, whatever values the field holds.
C9_PixelRange ==
  ipc = "done" => (img8Bit \subseteq 0..255 /\ img8Bit = rounded)

\* A field holding a value below 0, a value above 1 and a tie of np.rint.
C9_Witness ==
  /\ ipc = "done" /\ {-15000, 5000, 25000} \subseteq img.vals
  /\ img8Bit = {0, 128, 255}

----------------------------------------------------------------------------
\* safeDivide.

\* C10: the divisor safeDivide uses is max(b, 0.001), which is at least 0.001
\* for a zero, a positive and a negative b: no element is divided by zero.
C10_DivisorClamped ==
  dpc = "done" =>
    /\ divisor = (IF b > Epsilon THEN b ELSE Epsilon)
    /\ divisor >= Epsilon
    /\ quotient.kind = "finite"

\* 1.0 divided by 0.0 gives 1000.0.
C10_Witness ==
  /\ dpc = "done" /\ a = One /\ b = 0
  /\ quotient = [kind |-> "finite", val |-> 1000 * One]

\* C11 as claimed: a negative denominator is not clamped: for b < 0
\* safeDivide divides by b itself.
C11_NegativeNotClamped == (dpc = "done" /\ b < 0) => divisor = b

\* C11 as amended: a negative denominator is clamped like every b below
\* 0.001: for b < 0 safeDivide divides by 0.001, and the result is
\* a / 0.001 = 1000 * a, which keeps the sign of a.
C11_NegativeClampedToEpsilon ==
  (dpc = "done" /\ b < 0) =>
    /\ divisor = Epsilon
    /\ quotient = [kind |-> "finite", val |-> 1000 * a]

\* 1.0 divided by -0.0001 gives 1000.0.
C11_Witness ==
  /\ dpc = "done" /\ a = One /\ b = -1
  /\ divisor = Epsilon /\ quotient.val = 1000 * One

----------------------------------------------------------------------------
\* Evaluation.

\* C12: whatever tree buildImg returns, the field handed to the tiling step
\* holds no inf and no NaN, and the evaluation raises nothing.
C12_FieldIsFinite ==
  epc = "done" => val.kind \in {"zero", "finite"} /\ eraised = "none"

----------------------------------------------------------------------------
\* The output of creaate_image.

\* C16: within a creaate_image call no directory and no file is created before
\* the 8-bit buffer has been computed, and a call that lines 54..60 left with
\* an exception has created no directory and written no file, whole or partial.
C16_NoOutputBeforeBuffer ==
  /\ (mkdir # "none" \/ directory # "none" \/ file # "none") =>
        ipc \in {"named", "saved", "unsaved"} /\ tiled # <<>>
  /\ ipc = "raised" =>
        raised # "none" /\ mkdir = "none" /\ directory = "none" /\ file = "none"

\* A call has computed its buffer, created the directory and written the file.
C16_Witness ==
  ipc = "saved" /\ tiled # <<>> /\ mkdir = "ok" /\ file = "complete"

\* C17 as claimed: when the directory cannot be created the failure reaches the
\* caller of creaate_image, and no fallback destination replaces it.
C17_SinkFailurePropagates ==
  mkdir = "failed" => raised # "none" /\ directory # "."

\* C17 as amended: a failure of mkdir is caught inside create_random_filename,
\* the path falls back to the current directory and the call goes on to save
\* there; a failure of Image.fromarray or Image.save leaves creaate_image as an
\* exception.
C17_MkdirFailureFallsBack ==
  /\ mkdir = "failed" =>
        /\ directory = "."
        /\ ipc \in {"named", "saved", "unsaved"}
        /\ ipc \in {"named", "saved"} => raised = "none"
  /\ ipc = "unsaved" => raised # "none" /\ file # "complete"

\* The directory could not be created and the image was saved in ".".
C17_Witness ==
  mkdir = "failed" /\ directory = "." /\ ipc = "saved" /\ file = "complete"

----------------------------------------------------------------------------
\* The scheduler.

C19_OneOfThreeSchedules ==
  spc # "new" =>
    LET listed  == times.given /\ Len(times.list) > 0
        periodic == ~listed /\ Len(intervalHours) = 1 /\ intervalHours # <<0>>
    IN  /\ listed =>
              /\ Len(jobs) = Len(times.list)
              /\ \A k \in 1..Len(jobs) :
                    jobs[k].unit = "day" /\ jobs[k].at = times.list[k]
        /\ periodic =>
              /\ Len(jobs) = 1
              /\ jobs[1].unit = "hours" /\ jobs[1].interval = intervalHours[1]
        /\ (~listed /\ ~periodic) =>
              /\ Len(jobs) = 2
              /\ jobs[1].unit = "day" /\ jobs[1].at = "10:00"
              /\ jobs[2].unit = "day" /\ jobs[2].at = "20:00"

\* Two times and an interval were given: two daily jobs, none by the hour.
C19_Witness ==
  /\ spc = "idle" /\ Len(times.list) = 2 /\ intervalHours = <<6>>
  /\ Len(jobs) = 2 /\ jobs[1].unit = "day" /\ jobs[2].unit = "day"

\* C20: once stop() has been called while the loop of start() runs, start()
\* returns: the loop finishes at most the iteration in progress (one sleep
\* ends with running False, not two), and after the loop test has read False
\* the thread of start() takes no further step.
C20_StopEndsLoop ==
  /\ (spc \in {"while", "run_pending", "sleep"} /\ ~running) ~> (spc = "returned")
  /\ [](sleepsAfterStop <= 1)
  /\ [][spc = "returned" => ~LoopStep]_vars

\* stop() came during an iteration; the loop finished it and start() returned.
C20_Witness == spc = "returned" /\ sleepsAfterStop = 1

----------------------------------------------------------------------------
\* The generator.

\* The operators and the colours of a run, which with dX and dY fix the field
\* and the buffer: lines 51..60 draw nothing.
TreeOf(l) == SelectSeq(l, LAMBDA d : d.kind \in {"choice", "color"})

C15_SameAsAlone ==
  (run = 2 /\ pc = "built") => TreeOf(log) = TreeOf(log1)

----------------------------------------------------------------------------
\* The Instagram poster.

\* C21: post_image never uploads while not logged in: a post_image call made
\* while is_logged_in is False ends with RuntimeError and leaves the number of
\* client.photo_upload calls as it was.
C21_NoUploadWhileLoggedOut ==
  [][(result'.op = "post_image" /\ ~poster.is_logged_in)
       => (result'.out = "RuntimeError" /\ calls'.uploads = calls.uploads)]_vars

\* post_image has been refused twice on a poster whose client has logged in
\* but whose login() raised.
C21_Witness ==
  /\ result = [op |-> "post_image", out |-> "RuntimeError"]
  /\ ~poster.is_logged_in /\ calls.logins = 1
  /\ calls.posts = 2 /\ calls.uploads = 0

\* C22: is_logged_in is True only if a login() call has completed a
\* client.login and returned True, and a login() call that raises leaves
\* is_logged_in as it was.
C22_LoggedInOnlyAfterLogin ==
  /\ [](poster.is_logged_in => (calls.logins > 0 /\ calls.returnedTrue > 0))
  /\ [][(result'.op = "login" /\ result'.out # "True")
          => poster'.is_logged_in = poster.is_logged_in]_vars

\* A login() without a password has raised on a poster that an earlier
\* login() had logged in.
C22_Witness ==
  /\ poster.is_logged_in /\ calls.returnedTrue = 1
  /\ result = [op |-> "login", out |-> "ValueError"]

\* C23: generate_and_post saves the image before any Instagram step and returns
\* the path of the saved image: no poster call is made before the save, an
\* exception leaves generate_and_post only when nothing has been saved and no
\* poster call has been made, and what is returned is the saved path.
C23_SavedPathReturned ==
  /\ gp.pc \in {"try", "login", "prepare", "caption"}
       => (gp.saved # 0 /\ gp.saved = gp.filepath)
  /\ result.op # "none" => gp.saved # 0
  /\ gp.pc = "raised" => (gp.saved = 0 /\ result.op = "none")
  /\ gp.pc = "returned" => (gp.saved # 0 /\ gp.returned = gp.saved)

\* The login has failed and generate_and_post has returned the saved path.
C23_Witness ==
  /\ gp.pc = "returned" /\ gp.caught = "LoginRequired"
  /\ gp.returned = 9999 /\ gp.saved = 9999

\* C28: with auto_post true, both credentials set, and login and image
\* preparation successful, generate_and_post has called post_image exactly
\* once when it returns.
C28_PostsExactlyOnce ==
  (/\ gp.pc = "returned" /\ gp.auto_post
   /\ gp.username # "" /\ gp.password # ""
   /\ gp.loggedIn /\ gp.prepared)
    => calls.posts = 1

----------------------------------------------------------------------------
\* AvantGuard.random_parameters.

\* C24: for width >= 1 and height >= 1, random_parameters(width, height)
\* returns (x1, y1, x2, y2) with 0 <= x1 <= x2 <= width-1 and
\* 0 <= y1 <= y2 <= height-1.
C24_CoordinatesOrderedInBounds ==
  (rp.pc = "returned" /\ rp.width >= 1 /\ rp.height >= 1) =>
    /\ 0 <= rp.coords[1] /\ rp.coords[1] <= rp.coords[3]
    /\ rp.coords[3] <= rp.width - 1
    /\ 0 <= rp.coords[2] /\ rp.coords[2] <= rp.coords[4]
    /\ rp.coords[4] <= rp.height - 1

\* Both pairs were drawn in descending order and have been exchanged.
C24_Witness ==
  /\ rp.pc = "returned" /\ rp.width = 3 /\ rp.height = 2
  /\ rp.drawn = <<2, 0, 1, 0>> /\ rp.coords = <<0, 0, 2, 1>>

----------------------------------------------------------------------------
\* The Magnet's fields and its construction-time state.

\* C25: every field that the evaluation of a tree on a Magnet(dX, dY) produces
\* has shape (h, w, c) with h in {1, dY}, w in {1, dX} and c in {1, 3}; no
\* broadcast of two such fields fails (no axis of a result is 0), and the
\* field creaate_image receives has such a shape.
C25_ShapesOfFields ==
  /\ \A s \in FieldShapes(dX, dY) :
       s[1] \in {1, dY} /\ s[2] \in {1, dX} /\ s[3] \in {1, 3}
  /\ \A s, t \in FieldShapes(dX, dY) : \A k \in 1..3 : Broadcast(s, t)[k] # 0
  /\ ipc = "done" =>
       img.shape[1] \in {1, dY} /\ img.shape[2] \in {1, dX} /\ img.shape[3] \in {1, 3}

\* On a Magnet(2, 3) a tree has broadcast a colour, getX() and getY().
C25_Witness ==
  ipc = "done" /\ dX = 2 /\ dY = 3 /\ img.shape = <<3, 2, 3>>

\* C26: after any sequence of creaate_image calls on one Magnet, xArray,
\* yArray, dX and dY are what __init__ made them: no step of creaate_image
\* writes to them.
C26_CoordinatesUnchanged ==
  /\ [](xArray = LinspaceArray(dX) /\ yArray = LinspaceArray(dY))
  /\ [][xArray' = xArray /\ yArray' = yArray /\ dX' = dX /\ dY' = dY]_vars

\* A creaate_image call on a Magnet(3, 2) has run to its end, on a field that
\* is getX() passed through unary operators.
C26_Witness ==
  /\ ipc = "saved" /\ dX = 3 /\ dY = 2 /\ img.shape = <<1, 3, 1>>
  /\ xArray = <<0, 5000, 10000>> /\ yArray = <<0, 10000>>

\* C27: however the thresholds are drawn at each call, no buildImg call is
\* made at a depth greater than 30, and every leaf lies at a depth d with
\* 2 <= d <= 30: the root and its direct children are never leaves.
C27_LeafDepthBetween2And30 ==
  /\ Len(stack) <= DepthMaxHi
  /\ (pc = "ret" /\ NArgsOf(func) = 0) =>
       (DepthMinLo <= Len(stack) /\ Len(stack) <= DepthMaxHi)

\* A leaf at depth 30, below calls that each drew depth_max = 30 or passed
\* the filter with less.
C27_Witness ==
  pc = "ret" /\ func = "randColor" /\ Len(stack) = DepthMaxHi

----------------------------------------------------------------------------
\* stop() before start().

\* C29: a stop() that completes before start() begins is lost: start() sets
\* running to True whatever came before, the loop keeps running while the
\* only stop() calls were made before start(), and start() returns only
\* after a stop() made since it began.
C29_EarlyStopIsLost ==
  /\ [][(spc = "idle" /\ spc' # "idle") => running']_vars
  /\ []((stopSeen = "before" /\ spc \in {"while", "run_pending", "sleep"}) => running)
  /\ [](spc = "returned" => stopSeen = "after")

\* After a stop() made before start(), the loop has run a job and sleeps, still
\* running.
C29_Witness ==
  /\ stopSeen = "before" /\ spc = "sleep" /\ running
  /\ Len(outcomes) >= 1

====
